---- MODULE Spec2Model ----
(***************************************************************************)
(* The CW20-style token ledger of src/src/main.rs as a state machine.      *)
(*                                                                         *)
(* The state is the contract's store: the State record (owner, paused,     *)
(* reentrancy_guard), the TokenInfo singleton (total_supply) and the two   *)
(* buckets (balances, allowances).  Every entry point opens the store with *)
(* State::new(deps.storage), works on it and writes back with the bucket's *)
(* save or state.save(deps.storage).  A write takes effect where the code  *)
(* issues it: what the host does with the store of a call that returned    *)
(* Err lies outside this file, so a handler that saves and then returns    *)
(* Err is modelled as leaving what it saved.                               *)
(*                                                                         *)
(* State::new (lines 49-58) is read as binding the record to the store:    *)
(* the flags and the owner a handler sees are the ones the last            *)
(* state.save wrote (mint's set / save / reset / save protocol on lines    *)
(* 303-320 and pause's state.paused = true; state.save on lines 88-89 rely *)
(* on exactly that).  state.save itself is called on lines 89, 106, 147,   *)
(* 308 and 320 but defined nowhere in the file (lines 60-63 are commented  *)
(* out); it is the operator save below.                                    *)
(*                                                                         *)
(* Uint128 is scaled down to 0..MaxUint; one call is one atomic step, as   *)
(* the host delivers one call at a time.                                   *)
(***************************************************************************)
EXTENDS Integers, Sequences, FiniteSets, TLC

\* ------------------------------------------------------------------ bounds
\* Largest value of the scaled-down Uint128.
MaxUint == 2
\* Number of execute/query calls explored after instantiate.
MaxCalls == 2
\* Longest initial_balances list handed to instantiate.
MaxInitial == 1

\* HumanAddr values that call and are named in messages.
Addr == {"alice", "bob", "carol"}
Amounts == 0 .. MaxUint

VARIABLES
    instantiated,      \* has the host run instantiate yet
    owner,             \* State.owner
    paused,            \* State.paused
    reentrancy_guard,  \* State.reentrancy_guard
    total_supply,      \* TokenInfo.total_supply
    balances,          \* Bucket<Balance>: address -> amount, stored keys only
    allowances,        \* Bucket<Allowance>: <<owner, spender>> -> amount
    last,              \* the call just made and what it returned
    calls,             \* calls made since instantiate
    history            \* per (owner, spender): amounts granted, removed, moved

vars == <<instantiated, owner, paused, reentrancy_guard, total_supply,
          balances, allowances, last, calls, history>>

ledger == <<owner, paused, reentrancy_guard, total_supply, balances, allowances>>

\* ----------------------------------------------------------------- helpers
\* Bucket::save(key, value): the bucket with key bound to value.
Put(f, k, v) == [x \in (DOMAIN f) \cup {k} |-> IF x = k THEN v ELSE f[x]]

\* balances.load(addr).unwrap_or(Balance { amount: 0 }) on bucket b.
BalanceOrZero(b, a) == IF a \in DOMAIN b THEN b[a] ELSE 0

\* allowances.load(&(owner, spender)).unwrap_or(Allowance { .., 0 }).
AllowanceOrZero(al, o, s) == IF <<o, s>> \in DOMAIN al THEN al[<<o, s>>] ELSE 0

\* Uint128::checked_add fails when the sum leaves the integer's range.
AddOverflows(a, b) == a + b > MaxUint

\* if sender_balance.amount < amount { return Err("Insufficient balance") }
BalanceTooLow(balance, amount) == balance < amount

\* The allowance check off by one: a spender may overdraw by 1.
AllowanceTooLowOffByOne(allowance, amount) == allowance + 1 < amount

\* The allowance check left out: any amount passes.
AllowanceNeverTooLow(allowance, amount) == FALSE

\* if allowance.allowance < amount { return Err("Insufficient allowance") }
AllowanceTooLow(allowance, amount) == allowance < amount

\* approve that sets the allowance to the amount instead of adding to it.
Overwritten(allowance, amount) == amount

\* approve: allowance.allowance = allowance.allowance.checked_add(amount)?
Increased(allowance, amount) == allowance + amount

\* A decrease that clears the allowance instead of subtracting from it.
Cleared(allowance, amount) == 0

\* allowance.allowance = allowance.allowance.checked_sub(amount)?
Decreased(allowance, amount) == allowance - amount

\* A credit that stores the amount instead of adding it to the balance.
Replaced(balance, amount) == amount

\* recipient_balance.amount = recipient_balance.amount.checked_add(amount)?
Credited(balance, amount) == balance + amount

\* The recipient's balance read before the sender's debit was saved.
StaleRecipientBalance(before, debited, recipient) ==
    BalanceOrZero(before, recipient)

\* transfer / transfer_from: the recipient's balance is loaded from the
\* bucket after the debited balance was saved to it.
RecipientBalance(before, debited, recipient) ==
    BalanceOrZero(debited, recipient)

\* mint that never looks at the paused flag.
PauseIgnored == FALSE

\* mint: if state.paused { return Err("Contract is paused") }
ContractIsPaused == paused

\* query: state.balances.get(&msg.address).unwrap_or(&Uint128::zero())
balance_of(a) == BalanceOrZero(balances, a)

\* The allowance a spender may still draw from an owner; absent reads as 0.
allowance_of(o, s) == AllowanceOrZero(allowances, o, s)

\* The record of a call: operation, caller, its address arguments, amount,
\* and the Ok / Err it returned.
Call(op, sender, a1, a2, amount, result) ==
    [op |-> op, sender |-> sender, a1 |-> a1, a2 |-> a2,
     amount |-> amount, result |-> result]

\* state.save(deps.storage): the State record's plain fields are persisted.
save(o, p, g) ==
    /\ owner' = o
    /\ paused' = p
    /\ reentrancy_guard' = g

\* Nothing granted, removed or moved yet for any (owner, spender).
NoHistory ==
    LET none == [pr \in Addr \X Addr |-> 0]
    IN  [granted |-> none, removed |-> none, moved |-> none]

\* The running totals after the call recorded in last': what successful
\* approve calls granted, successful decrease_allowance calls removed and
\* successful transfer_from calls moved out of the owner's balance.
Tracked ==
    history' =
        IF last'.result # "Ok" THEN history
        ELSE IF last'.op = "approve"
        THEN [history EXCEPT !.granted[<<last'.sender, last'.a1>>] =
                                 @ + last'.amount]
        ELSE IF last'.op = "decrease_allowance"
        THEN [history EXCEPT !.removed[<<last'.sender, last'.a1>>] =
                                 @ + last'.amount]
        ELSE IF last'.op = "transfer_from"
        THEN [history EXCEPT !.moved[<<last'.a1, last'.sender>>] =
                                 @ + last'.amount]
        ELSE history

\* Fold of instantiate's loop: state.balances.insert(address, amount).
RECURSIVE InsertAll(_, _)
InsertAll(b, list) ==
    IF list = <<>> THEN b
    ELSE InsertAll(Put(b, Head(list)[1], Head(list)[2]), Tail(list))

InitialBalances ==
    UNION {[1 .. n -> Addr \X Amounts] : n \in 0 .. MaxInitial}

\* -------------------------------------------------------------------- Init
Init ==
    /\ instantiated = FALSE
    /\ owner = ""
    /\ paused = FALSE
    /\ reentrancy_guard = FALSE
    /\ total_supply = 0
    /\ balances = [a \in {} |-> 0]
    /\ allowances = [p \in {} |-> 0]
    /\ last = Call("none", "", "", "", 0, "Ok")
    /\ calls = 0
    /\ history = NoHistory

Ready == instantiated /\ calls < MaxCalls

\* ----------------------------------------------------------------- actions
\* instantiate that leaves the owner at State::new's empty address.
instantiate_ownerless(sender, initial_balances) ==
    /\ ~instantiated
    /\ instantiated' = TRUE
    /\ save("", FALSE, FALSE)
    /\ total_supply' = 0
    /\ balances' = InsertAll([a \in {} |-> 0], initial_balances)
    /\ allowances' = [p \in {} |-> 0]
    /\ last' = Call("instantiate", sender, "", "", 0, "Ok")
    /\ calls' = 0
    /\ Tracked

instantiate(sender, initial_balances) ==
    /\ ~instantiated
    /\ instantiated' = TRUE
    /\ save(sender, FALSE, FALSE)
    /\ total_supply' = 0
    /\ balances' = InsertAll([a \in {} |-> 0], initial_balances)
    /\ allowances' = [p \in {} |-> 0]
    /\ last' = Call("instantiate", sender, "", "", 0, "Ok")
    /\ calls' = 0
    /\ Tracked

pause(sender) ==
    /\ Ready
    /\ calls' = calls + 1
    /\ UNCHANGED <<instantiated, total_supply, balances, allowances>>
    /\ IF sender # owner
       THEN /\ last' = Call("pause", sender, "", "", 0, "Unauthorized")
            /\ UNCHANGED <<owner, paused, reentrancy_guard>>
       ELSE /\ save(owner, TRUE, reentrancy_guard)
            /\ last' = Call("pause", sender, "", "", 0, "Ok")
    /\ Tracked

unpause(sender) ==
    /\ Ready
    /\ calls' = calls + 1
    /\ UNCHANGED <<instantiated, total_supply, balances, allowances>>
    /\ IF sender # owner
       THEN /\ last' = Call("unpause", sender, "", "", 0, "Unauthorized")
            /\ UNCHANGED <<owner, paused, reentrancy_guard>>
       ELSE /\ save(owner, FALSE, reentrancy_guard)
            /\ last' = Call("unpause", sender, "", "", 0, "Ok")
    /\ Tracked

query(address) ==
    /\ Ready
    /\ calls' = calls + 1
    /\ UNCHANGED <<instantiated, ledger>>
    /\ last' = Call("query", "", address, "", balance_of(address), "Ok")
    /\ Tracked

\* transfer that books its credit as new supply, as a mint would.
transfer_counting_supply(sender, recipient, amount) ==
    /\ Ready
    /\ calls' = calls + 1
    /\ UNCHANGED <<instantiated, owner, paused, reentrancy_guard, allowances>>
    /\ total_supply' = total_supply + amount
    /\ IF sender \notin DOMAIN balances
       THEN /\ last' = Call("transfer", sender, recipient, "", amount, "NotFound")
            /\ UNCHANGED balances
       ELSE IF BalanceTooLow(balances[sender], amount)
       THEN /\ last' = Call("transfer", sender, recipient, "", amount,
                            "InsufficientBalance")
            /\ UNCHANGED balances
       ELSE LET debited == Put(balances, sender, balances[sender] - amount)
                recipient_balance == RecipientBalance(balances, debited, recipient)
            IN  IF AddOverflows(recipient_balance, amount)
                THEN /\ last' = Call("transfer", sender, recipient, "", amount,
                                     "Overflow")
                     /\ balances' = debited
                ELSE /\ last' = Call("transfer", sender, recipient, "", amount, "Ok")
                     /\ balances' = Put(debited, recipient,
                                        Credited(recipient_balance, amount))
    /\ Tracked

transfer(sender, recipient, amount) ==
    /\ Ready
    /\ calls' = calls + 1
    /\ UNCHANGED <<instantiated, owner, paused, reentrancy_guard, total_supply,
                   allowances>>
    /\ IF sender \notin DOMAIN balances
       THEN /\ last' = Call("transfer", sender, recipient, "", amount, "NotFound")
            /\ UNCHANGED balances
       ELSE IF BalanceTooLow(balances[sender], amount)
       THEN /\ last' = Call("transfer", sender, recipient, "", amount,
                            "InsufficientBalance")
            /\ UNCHANGED balances
       ELSE LET debited == Put(balances, sender, balances[sender] - amount)
                recipient_balance == RecipientBalance(balances, debited, recipient)
            IN  IF AddOverflows(recipient_balance, amount)
                THEN /\ last' = Call("transfer", sender, recipient, "", amount,
                                     "Overflow")
                     /\ balances' = debited
                ELSE /\ last' = Call("transfer", sender, recipient, "", amount, "Ok")
                     /\ balances' = Put(debited, recipient,
                                        Credited(recipient_balance, amount))
    /\ Tracked

approve(sender, spender, amount) ==
    /\ Ready
    /\ calls' = calls + 1
    /\ UNCHANGED <<instantiated, owner, paused, reentrancy_guard, total_supply,
                   balances>>
    /\ LET allowance == AllowanceOrZero(allowances, sender, spender)
       IN  IF AddOverflows(allowance, amount)
           THEN /\ last' = Call("approve", sender, spender, "", amount, "Overflow")
                /\ UNCHANGED allowances
           ELSE /\ last' = Call("approve", sender, spender, "", amount, "Ok")
                /\ allowances' = Put(allowances, <<sender, spender>>,
                                     Increased(allowance, amount))
    /\ Tracked

transfer_from(sender, from, recipient, amount) ==
    /\ Ready
    /\ calls' = calls + 1
    /\ UNCHANGED <<instantiated, owner, paused, reentrancy_guard, total_supply>>
    /\ LET allowance == AllowanceOrZero(allowances, from, sender)
           spent == Put(allowances, <<from, sender>>,
                        Decreased(allowance, amount))
       IN  IF AllowanceTooLow(allowance, amount)
           THEN /\ last' = Call("transfer_from", sender, from, recipient, amount,
                                "InsufficientAllowance")
                /\ UNCHANGED <<balances, allowances>>
           ELSE IF from \notin DOMAIN balances
           THEN /\ last' = Call("transfer_from", sender, from, recipient, amount,
                                "NotFound")
                /\ allowances' = spent
                /\ UNCHANGED balances
           ELSE IF BalanceTooLow(balances[from], amount)
           THEN /\ last' = Call("transfer_from", sender, from, recipient, amount,
                                "InsufficientBalance")
                /\ allowances' = spent
                /\ UNCHANGED balances
           ELSE LET debited == Put(balances, from, balances[from] - amount)
                    recipient_balance == RecipientBalance(balances, debited, recipient)
                IN  IF AddOverflows(recipient_balance, amount)
                    THEN /\ last' = Call("transfer_from", sender, from, recipient,
                                         amount, "Overflow")
                         /\ allowances' = spent
                         /\ balances' = debited
                    ELSE /\ last' = Call("transfer_from", sender, from, recipient,
                                         amount, "Ok")
                         /\ allowances' = spent
                         /\ balances' = Put(debited, recipient,
                                            Credited(recipient_balance, amount))
    /\ Tracked

decrease_allowance(sender, spender, amount) ==
    /\ Ready
    /\ calls' = calls + 1
    /\ UNCHANGED <<instantiated, owner, paused, reentrancy_guard, total_supply,
                   balances>>
    /\ LET allowance == AllowanceOrZero(allowances, sender, spender)
       IN  IF AllowanceTooLow(allowance, amount)
           THEN /\ last' = Call("decrease_allowance", sender, spender, "", amount,
                                "InsufficientAllowance")
                /\ UNCHANGED allowances
           ELSE /\ last' = Call("decrease_allowance", sender, spender, "", amount,
                                "Ok")
                /\ allowances' = Put(allowances, <<sender, spender>>,
                                     Decreased(allowance, amount))
    /\ Tracked

burn(sender, amount) ==
    /\ Ready
    /\ calls' = calls + 1
    /\ UNCHANGED <<instantiated, owner, paused, reentrancy_guard, total_supply,
                   allowances>>
    /\ IF sender \notin DOMAIN balances
       THEN /\ last' = Call("burn", sender, "", "", amount, "NotFound")
            /\ UNCHANGED balances
       ELSE IF BalanceTooLow(balances[sender], amount)
       THEN /\ last' = Call("burn", sender, "", "", amount, "InsufficientBalance")
            /\ UNCHANGED balances
       ELSE /\ last' = Call("burn", sender, "", "", amount, "Ok")
            /\ balances' = Put(balances, sender, balances[sender] - amount)
    /\ Tracked

mint(sender, recipient, amount) ==
    /\ Ready
    /\ calls' = calls + 1
    /\ UNCHANGED <<instantiated, total_supply, allowances>>
    /\ IF ContractIsPaused
       THEN /\ last' = Call("mint", sender, recipient, "", amount, "ContractPaused")
            /\ UNCHANGED <<owner, paused, reentrancy_guard, balances>>
       ELSE IF reentrancy_guard
       THEN /\ last' = Call("mint", sender, recipient, "", amount, "ReentrantCall")
            /\ UNCHANGED <<owner, paused, reentrancy_guard, balances>>
       ELSE IF sender # owner
       THEN /\ save(owner, paused, TRUE)
            /\ last' = Call("mint", sender, recipient, "", amount, "Unauthorized")
            /\ UNCHANGED balances
       ELSE LET recipient_balance == BalanceOrZero(balances, recipient)
            IN  IF AddOverflows(recipient_balance, amount)
                THEN /\ save(owner, paused, TRUE)
                     /\ last' = Call("mint", sender, recipient, "", amount,
                                     "Overflow")
                     /\ UNCHANGED balances
                ELSE /\ balances' = Put(balances, recipient,
                                        Credited(recipient_balance, amount))
                     /\ save(owner, paused, FALSE)
                     /\ last' = Call("mint", sender, recipient, "", amount, "Ok")
    /\ Tracked

Next ==
    \/ \E s \in Addr, l \in InitialBalances : instantiate(s, l)
    \/ \E s \in Addr : pause(s)
    \/ \E s \in Addr : unpause(s)
    \/ \E a \in Addr : query(a)
    \/ \E s, r \in Addr, n \in Amounts : transfer(s, r, n)
    \/ \E s, sp \in Addr, n \in Amounts : approve(s, sp, n)
    \/ \E s, f, r \in Addr, n \in Amounts : transfer_from(s, f, r, n)
    \/ \E s, sp \in Addr, n \in Amounts : decrease_allowance(s, sp, n)
    \/ \E s \in Addr, n \in Amounts : burn(s, n)
    \/ \E s, r \in Addr, n \in Amounts : mint(s, r, n)

Spec == Init /\ [][Next]_vars
\* ------------------------------------------------------ observable views
\* What the readers of the ledger see: an absent entry reads as 0.
Balances == [a \in Addr |-> balance_of(a)]
Allowances == [pr \in Addr \X Addr |-> allowance_of(pr[1], pr[2])]

RECURSIVE SumOver(_, _)
SumOver(f, S) ==
    IF S = {} THEN 0
    ELSE LET x == CHOOSE y \in S : TRUE
         IN  f[x] + SumOver(f, S \ {x})

\* Sum of balance_of(a) over all addresses.
SumOfBalances == SumOver(balances, DOMAIN balances)

\* The step is one call of operation op (every call advances calls).
CallOf(op) == calls' = calls + 1 /\ last'.op = op

\* ---------------------------------------------------------------- claims

\* C1: in every state reachable after instantiate, total_supply equals the
\* sum of balance_of(a) over all addresses a.
C1_SupplyEqualsSumOfBalances ==
    instantiated => total_supply = SumOfBalances

\* C2: a mint, pause or unpause call by a caller that is not the owner fails
\* with Unauthorized, whatever the paused flag and the reentrancy guard are,
\* and leaves every balance, total_supply and the paused flag unchanged.
C2_NonOwnerIsUnauthorized ==
    [][(/\ \/ CallOf("mint") \/ CallOf("pause") \/ CallOf("unpause")
        /\ last'.sender # owner)
       => /\ last'.result = "Unauthorized"
          /\ Balances' = Balances
          /\ total_supply' = total_supply
          /\ paused' = paused]_vars

\* C3: the reentrancy guard is false in every state between operations, so
\* after a mint call has returned on any exit path.
C3_GuardFreeBetweenCalls ==
    reentrancy_guard = FALSE

\* C4: a call that returns an error leaves balances, allowances,
\* total_supply, owner, paused and reentrancy_guard as they were before it.
C4_FailedCallChangesNothing ==
    [][(calls' = calls + 1 /\ last'.result # "Ok")
       => /\ Balances' = Balances
          /\ Allowances' = Allowances
          /\ total_supply' = total_supply
          /\ owner' = owner
          /\ paused' = paused
          /\ reentrancy_guard' = reentrancy_guard]_vars

\* C5: transfer(recipient, amount) by a sender with balance >= amount and
\* recipient # sender succeeds, moves exactly amount from the sender to the
\* recipient and changes no other balance, no allowance and not
\* total_supply; with amount > the sender's balance it fails with
\* InsufficientBalance.
C5_Transfer ==
    [][CallOf("transfer")
       => LET s == last'.sender
              r == last'.a1
              n == last'.amount
          IN  /\ (balance_of(s) >= n /\ r # s)
                 => /\ last'.result = "Ok"
                    /\ Balances' = [Balances EXCEPT ![s] = @ - n, ![r] = @ + n]
                    /\ Allowances' = Allowances
                    /\ total_supply' = total_supply
              /\ (n > balance_of(s))
                 => last'.result = "InsufficientBalance"]_vars

\* C6: transfer_from(owner, recipient, amount) by a caller whose allowance
\* from owner is >= amount, with owner's balance >= amount, succeeds, takes
\* exactly amount off the allowance and off the owner's balance, adds exactly
\* amount to the recipient's balance, and leaves total_supply and the balance
\* of a caller that is neither owner nor recipient unchanged.
C6_TransferFrom ==
    [][CallOf("transfer_from")
       => LET c == last'.sender
              o == last'.a1
              r == last'.a2
              n == last'.amount
          IN  (allowance_of(o, c) >= n /\ balance_of(o) >= n)
              => /\ last'.result = "Ok"
                 /\ Allowances' = [Allowances EXCEPT ![<<o, c>>] = @ - n]
                 /\ Balances'[o] = (IF r = o THEN Balances[o] ELSE Balances[o] - n)
                 /\ Balances'[r] = (IF r = o THEN Balances[r] ELSE Balances[r] + n)
                 /\ total_supply' = total_supply
                 /\ (c # o /\ c # r) => Balances'[c] = Balances[c]]_vars

\* C7: transfer_from(owner, recipient, amount) with amount above the caller's
\* allowance from owner (absent counting as 0) fails with
\* InsufficientAllowance whatever owner's balance is, and changes no balance
\* and no allowance.
C7_TransferFromOverAllowance ==
    [][(CallOf("transfer_from")
        /\ last'.amount > allowance_of(last'.a1, last'.sender))
       => /\ last'.result = "InsufficientAllowance"
          /\ balances' = balances
          /\ allowances' = allowances]_vars

\* C7 happens: a transfer_from asked for more than a non-zero allowance and
\* for more than the owner's balance, and was refused.
C7_Witness ==
    /\ last.op = "transfer_from"
    /\ last.result = "InsufficientAllowance"
    /\ allowance_of(last.a1, last.sender) > 0
    /\ last.amount > allowance_of(last.a1, last.sender)
    /\ last.amount > balance_of(last.a1)

\* C8: a successful approve(spender, X) sets allowance_of(caller, spender) to
\* its previous value (0 when absent) plus X, so that two approve(spender, X)
\* in a row from no allowance give 2*X; no other allowance and no balance
\* changes.
C8_ApproveIsAdditive ==
    [][(CallOf("approve") /\ last'.result = "Ok")
       => /\ Allowances' = [Allowances EXCEPT ![<<last'.sender, last'.a1>>] =
                                                  @ + last'.amount]
          /\ balances' = balances]_vars

\* C8 happens: the second of two calls since instantiate was approve(spender,
\* X) with X > 0 and the allowance now reads 2*X (no single call before it
\* but approve(spender, X) gives the allowance X).
C8_Witness ==
    /\ calls = 2
    /\ last.op = "approve"
    /\ last.result = "Ok"
    /\ last.amount > 0
    /\ allowance_of(last.sender, last.a1) = 2 * last.amount

C10_Burn ==
    [][(CallOf("burn") /\ last'.sender \in DOMAIN balances)
       => LET s == last'.sender
              n == last'.amount
          IN  /\ (balances[s] >= n)
                 => /\ last'.result = "Ok"
                    /\ Balances' = [Balances EXCEPT ![s] = @ - n]
                    /\ total_supply' = total_supply - n
              /\ (n > balances[s])
                 => last'.result = "InsufficientBalance"]_vars

\* C11: mint(recipient, amount) by the owner, the contract not paused and the
\* guard free, succeeds and adds exactly amount to the recipient's balance
\* and to total_supply, leaving every other balance and every allowance
\* unchanged.  (Stated for mints whose credit fits the integer range.)
C11_Mint ==
    [][(/\ CallOf("mint")
        /\ last'.sender = owner
        /\ ~paused
        /\ ~reentrancy_guard
        /\ ~AddOverflows(balance_of(last'.a1), last'.amount))
       => /\ last'.result = "Ok"
          /\ Balances' = [Balances EXCEPT ![last'.a1] = @ + last'.amount]
          /\ total_supply' = total_supply + last'.amount
          /\ Allowances' = Allowances]_vars

\* Sum of the amounts listed for address a in an initial_balances list.
RECURSIVE ListedFor(_, _)
ListedFor(list, a) ==
    IF list = <<>> THEN 0
    ELSE (IF Head(list)[1] = a THEN Head(list)[2] ELSE 0)
         + ListedFor(Tail(list), a)

\* Sum of all amounts of an initial_balances list.
RECURSIVE ListedTotal(_)
ListedTotal(list) ==
    IF list = <<>> THEN 0 ELSE Head(list)[2] + ListedTotal(Tail(list))

\* C12: after instantiate(initial_balances) by caller c the owner is c, paused
\* and reentrancy_guard are false, balance_of(a) is the sum of the amounts of
\* all entries for a in the list (repeated addresses accumulate), and
\* total_supply is the sum of all listed amounts.
C12_Instantiate ==
    [][\A c \in Addr, list \in InitialBalances :
          instantiate(c, list)
          => /\ owner' = c
             /\ paused' = FALSE
             /\ reentrancy_guard' = FALSE
             /\ \A a \in Addr : balance_of(a)' = ListedFor(list, a)
             /\ total_supply' = ListedTotal(list)]_vars

\* C13: an absent balance entry is read like an entry of 0 by every reader:
\* query_balance returns 0 without error, and transfer, burn and
\* transfer_from (its allowance check passed) debiting an account without a
\* balance entry succeed for amount 0 and fail with InsufficientBalance for
\* an amount > 0.
C13_AbsentReadsAsZero ==
    [][/\ (CallOf("query") /\ last'.a1 \notin DOMAIN balances)
          => (last'.result = "Ok" /\ last'.amount = 0)
       /\ (/\ \/ CallOf("transfer") \/ CallOf("burn")
           /\ last'.sender \notin DOMAIN balances)
          => last'.result = (IF last'.amount = 0 THEN "Ok"
                             ELSE "InsufficientBalance")
       /\ (/\ CallOf("transfer_from")
           /\ last'.a1 \notin DOMAIN balances
           /\ allowance_of(last'.a1, last'.sender) >= last'.amount)
          => last'.result = (IF last'.amount = 0 THEN "Ok"
                             ELSE "InsufficientBalance")]_vars

\* C14: decrease_allowance(spender, amount) fails with InsufficientAllowance
\* when amount > allowance(caller, spender) (absent counting as 0) and
\* otherwise sets allowance(caller, spender) to its previous value minus
\* amount; either way no balance, no other allowance and not total_supply
\* changes.
C14_DecreaseAllowance ==
    [][CallOf("decrease_allowance")
       => LET c == last'.sender
              sp == last'.a1
              n == last'.amount
          IN  /\ IF n > allowance_of(c, sp)
                 THEN /\ last'.result = "InsufficientAllowance"
                      /\ Allowances' = Allowances
                 ELSE /\ last'.result = "Ok"
                      /\ Allowances' = [Allowances EXCEPT ![<<c, sp>>] = @ - n]
              /\ balances' = balances
              /\ total_supply' = total_supply]_vars

\* C14 happens: a decrease_allowance took a positive amount off an allowance
\* and left some of it.
C14_Witness ==
    /\ last.op = "decrease_allowance"
    /\ last.result = "Ok"
    /\ last.amount > 0
    /\ allowance_of(last.sender, last.a1) > 0

\* Every stored balance, allowance and the supply lie in the integer's range.
InRange ==
    /\ \A a \in DOMAIN balances : balances[a] \in 0 .. MaxUint
    /\ \A pr \in DOMAIN allowances : allowances[pr] \in 0 .. MaxUint
    /\ total_supply \in 0 .. MaxUint

\* C15: no balance, allowance or total_supply ever wraps or saturates: a
\* transfer, transfer_from, mint or approve whose credit would take a
\* balance, an allowance or total_supply above the integer maximum fails with
\* ArithmeticOverflow and leaves the state unchanged, the debit of the sender
\* already computed in transfer / transfer_from included.
C15_OverflowFailsCleanly ==
    [][/\ InRange'
       /\ \A c \in Addr, list \in InitialBalances :
             instantiate(c, list)
             => /\ ListedTotal(list) <= MaxUint
                /\ \A a \in Addr : ListedFor(list, a) <= MaxUint
       /\ LET n == last'.amount
              WouldOverflow ==
                  \/ /\ CallOf("transfer")
                     /\ last'.sender \in DOMAIN balances
                     /\ balances[last'.sender] >= n
                     /\ last'.a1 # last'.sender
                     /\ AddOverflows(balance_of(last'.a1), n)
                  \/ /\ CallOf("transfer_from")
                     /\ allowance_of(last'.a1, last'.sender) >= n
                     /\ last'.a1 \in DOMAIN balances
                     /\ balances[last'.a1] >= n
                     /\ last'.a2 # last'.a1
                     /\ AddOverflows(balance_of(last'.a2), n)
                  \/ /\ CallOf("mint")
                     /\ last'.sender = owner
                     /\ ~paused
                     /\ ~reentrancy_guard
                     /\ \/ AddOverflows(balance_of(last'.a1), n)
                        \/ AddOverflows(total_supply, n)
                  \/ /\ CallOf("approve")
                     /\ AddOverflows(allowance_of(last'.sender, last'.a1), n)
          IN  WouldOverflow
              => /\ last'.result = "Overflow"
                 /\ Balances' = Balances
                 /\ Allowances' = Allowances
                 /\ total_supply' = total_supply
                 /\ owner' = owner
                 /\ paused' = paused
                 /\ reentrancy_guard' = reentrancy_guard]_vars

\* C16: total_supply is changed only by mint (increase) and burn (decrease):
\* every transfer, approve, transfer_from, decrease_allowance, pause,
\* unpause and query_balance call, successful or failing, leaves it
\* unchanged.
C16_SupplyFrame ==
    [][/\ (\/ CallOf("transfer") \/ CallOf("approve") \/ CallOf("transfer_from")
           \/ CallOf("decrease_allowance") \/ CallOf("pause")
           \/ CallOf("unpause") \/ CallOf("query"))
          => total_supply' = total_supply
       /\ (total_supply' > total_supply) => CallOf("mint")
       /\ (total_supply' < total_supply) => CallOf("burn")]_vars

\* C16 happens: a transfer has just moved a positive amount between two
\* accounts.
C16_Witness ==
    /\ last.op = "transfer"
    /\ last.result = "Ok"
    /\ last.amount > 0
    /\ last.a1 # last.sender
    /\ balance_of(last.a1) >= last.amount

C19_OnlyHolderOrSpenderDebits ==
    [][\A a \in Addr :
          (balance_of(a)' < balance_of(a))
          => \/ CallOf("transfer") /\ last'.sender = a
             \/ CallOf("burn") /\ last'.sender = a
             \/ /\ CallOf("transfer_from")
                /\ last'.a1 = a
                /\ allowance_of(a, last'.sender) >= last'.amount
                /\ balance_of(a) - balance_of(a)' <= last'.amount]_vars

\* C19 happens: a spender other than the owner has just moved a positive
\* amount out of the owner's balance to someone else.
C19_Witness ==
    /\ last.op = "transfer_from"
    /\ last.result = "Ok"
    /\ last.amount > 0
    /\ last.sender # last.a1
    /\ last.a2 # last.a1

\* C20: a self-transfer neither creates nor destroys tokens: a successful
\* transfer whose recipient is the sender, or a successful transfer_from
\* whose recipient is the owner, leaves that account's balance as it was
\* before the call and leaves the sum of all balances unchanged.
C20_SelfTransferIsNeutral ==
    [][/\ (CallOf("transfer") /\ last'.result = "Ok" /\ last'.a1 = last'.sender)
          => /\ Balances'[last'.sender] = Balances[last'.sender]
             /\ SumOfBalances' = SumOfBalances
       /\ (CallOf("transfer_from") /\ last'.result = "Ok" /\ last'.a2 = last'.a1)
          => /\ Balances'[last'.a1] = Balances[last'.a1]
             /\ SumOfBalances' = SumOfBalances]_vars

\* C20 happens: a holder has just transferred a positive amount to itself.
C20_Witness ==
    /\ last.op = "transfer"
    /\ last.result = "Ok"
    /\ last.a1 = last.sender
    /\ last.amount > 0
    /\ balance_of(last.sender) >= last.amount
====
